---------------------------- MODULE Spec2Model ----------------------------
(***************************************************************************)
(* The execution engine of the shell (cmd.c): parse_command walks a        *)
(* command tree, parse_simple runs one leaf, run_in_parallel and           *)
(* run_on_pipe fork two children each.  Processes are modelled with their  *)
(* call stacks, environment tables and working directories; fork copies    *)
(* all three.  Strings are sequences of one-character strings.             *)
(***************************************************************************)
EXTENDS Integers, Sequences, FiniteSets, TLC

(***************************************************************************)
(* Bounds of the model.                                                    *)
(***************************************************************************)
MaxProcs == 5
MaxVerbLen == 4
MaxParams == 2
\* Size of a process's descriptor table (RLIMIT_NOFILE).
MaxFds == 8
\* Bytes a pipe holds before a writer blocks.
PipeCap == 1

(***************************************************************************)
(* Program constants.                                                      *)
(***************************************************************************)
SHELL_EXIT == -100
EXIT_FAILURE == 1

Pids == 1..MaxProcs
Shell == 1

Chars == {"a", "b", "="}

\* All strings over Chars of length 0..n.
Strs(n) == UNION {[1..k -> Chars] : k \in 0..n}

STR_CD == <<"c", "d">>
STR_EXIT == <<"e", "x", "i", "t">>
STR_QUIT == <<"q", "u", "i", "t">>

\* Words that occur as parameters, and the directories chdir() finds.
ParamWords == {<<"a">>, <<"b">>}
ExistingDirs == {<<"a">>}
\* The programs execvp() finds on the search path.
InstalledPrograms == {<<"a">>, <<"a", "a">>, <<"a", "b">>}
ParamLists == UNION {[1..k -> ParamWords] : k \in 0..MaxParams}

\* Exit codes an executed program may pass to exit().
ExitCodes == {0, 1}
\* The signal that kills a process writing to a pipe nobody reads.
SIGPIPE == 13

\* What the installed programs do: PROG_WRITER writes two bytes to its
\* standard output, PROG_READER reads its standard input to the end, the
\* third does no input or output; then each calls exit with one of codes.
PROG_WRITER == <<"a", "a">>
PROG_READER == <<"a", "b">>
ProgramOf(cmd) ==
    [out |-> IF cmd = PROG_WRITER THEN <<"x", "y">> ELSE <<>>,
     reads |-> cmd = PROG_READER,
     codes |-> IF cmd \in {PROG_WRITER, PROG_READER} THEN {0} ELSE ExitCodes,
     wrote |-> <<>>, got |-> <<>>]
NoProgram == [out |-> <<>>, reads |-> FALSE, codes |-> {}, wrote |-> <<>>, got |-> <<>>]

(***************************************************************************)
(* Command trees.  A pointer is a sequence of length 0 (NULL) or 1.        *)
(***************************************************************************)
\* A simple_command_t: verb, params, the redirection words in, out, err and
\* io_flags.  Without redirection the three words are NULL.
SimpleCommand(verb, params) ==
    [verb |-> verb, params |-> params,
     in |-> <<>>, out |-> <<>>, err |-> <<>>, io_flags |-> {}]

Redirected(s, in, out, err, io_flags) ==
    [s EXCEPT !.in = in, !.out = out, !.err = err, !.io_flags = io_flags]

Leaf(scmd) == [op |-> "OP_NONE", scmd |-> scmd, cmd1 |-> <<>>, cmd2 |-> <<>>]

Composite(op, l, r) == [op |-> op, scmd |-> <<>>, cmd1 |-> <<l>>, cmd2 |-> <<r>>]

Operators == {"OP_SEQUENTIAL", "OP_PARALLEL", "OP_CONDITIONAL_NZERO",
              "OP_CONDITIONAL_ZERO", "OP_PIPE"}

\* Every simple command within the bounds, a leaf with no command, and a leaf
\* whose verb has no string.
Verbs == Strs(MaxVerbLen) \cup {STR_CD, STR_EXIT, STR_QUIT}
SimpleCommands == {SimpleCommand(<<v>>, ps) : v \in Verbs, ps \in ParamLists}
                    \cup {SimpleCommand(<<>>, <<>>)}
LeafTrees == {Leaf(<<s>>) : s \in SimpleCommands} \cup {Leaf(<<>>)}

\* Files redirections name: FILE_F exists, FILE_G does not exist yet, and the
\* directory of ExistingDirs cannot be opened for writing.
FILE_F == <<"f">>
FILE_G == <<"g">>
FilePaths == {FILE_F, FILE_G} \cup ExistingDirs
IoFlags == {"IO_OUT_APPEND", "IO_ERR_APPEND"}
\* cd with no, one (existing or missing) and two parameters, a program that
\* is installed and one that is not, under every combination of redirections.
RedirVerbs == {SimpleCommand(<<STR_CD>>, ps) :
                 ps \in {<<>>, <<<<"a">>>>, <<<<"b">>>>, <<<<"a">>, <<"b">>>>}}
                \cup {SimpleCommand(<<v>>, <<>>) : v \in {<<"a">>, <<"b">>}}
RedirCommands == {Redirected(s, in, out, err, fl) :
                    s \in RedirVerbs,
                    in \in {<<>>, <<FILE_F>>, <<FILE_G>>},
                    out \in {<<>>, <<FILE_F>>} \cup {<<d>> : d \in ExistingDirs},
                    err \in {<<>>, <<FILE_F>>, <<FILE_G>>} \cup {<<d>> : d \in ExistingDirs},
                    fl \in SUBSET IoFlags}
RedirLeaves == {Leaf(<<s>>) : s \in RedirCommands}

\* The leaves composite trees are built from: an external command, exit, a
\* well-formed assignment and a malformed one.
SmallLeaves == {Leaf(<<SimpleCommand(<<v>>, <<>>)>>) :
                  v \in {<<"a">>, STR_EXIT, <<"a", "=", "b">>, <<"=">>}}
TinyLeaves == {Leaf(<<SimpleCommand(<<v>>, <<>>)>>) : v \in {<<"a", "=", "b">>, STR_EXIT}}
OuterLeaves == TinyLeaves \cup {Leaf(<<SimpleCommand(<<<<"b", "=", "a">>>>, <<>>)>>)}
\* One operator over two leaves; OP_DUMMY is the tag parse_command does not know.
Depth1Trees == {Composite(op, l, r) :
                  op \in Operators \cup {"OP_DUMMY"}, l \in SmallLeaves, r \in SmallLeaves}
\* One operator over a nested composite and a leaf, either way round.
InnerTrees == {Composite(op, l, r) : op \in Operators, l \in TinyLeaves, r \in TinyLeaves}
\* Where both operators fork, the nested one is over two assignments and
\* the leaf beside it is one of TinyLeaves.
ForkingOps == {"OP_PARALLEL", "OP_PIPE"}
NestOK(op, inner, leaf) ==
    (op \in ForkingOps /\ inner.op \in ForkingOps)
        => /\ leaf \in TinyLeaves
           /\ inner.cmd1 = inner.cmd2
           /\ inner.cmd1[1].scmd[1].verb[1] = <<"a", "=", "b">>
Depth2Trees == {t \in {Composite(op, l, r) : op \in Operators, l \in InnerTrees, r \in OuterLeaves} :
                  NestOK(t.op, t.cmd1[1], t.cmd2[1])}
                 \cup {t \in {Composite(op, l, r) : op \in Operators, l \in OuterLeaves, r \in InnerTrees} :
                          NestOK(t.op, t.cmd2[1], t.cmd1[1])}
\* Pipelines of programs that write and read, with and without a redirection
\* of their own, and two with an assignment before the program.
Program(v) == SimpleCommand(<<v>>, <<>>)
IoLeaves == {Leaf(<<Program(v)>>) : v \in {<<"a">>, PROG_WRITER, PROG_READER}}
              \cup {Leaf(<<Redirected(Program(PROG_WRITER), <<>>, <<FILE_F>>, <<>>, {})>>),
                    Leaf(<<Redirected(Program(PROG_READER), <<FILE_F>>, <<>>, <<>>, {})>>)}
AssignThen(v) ==
    Composite("OP_SEQUENTIAL", Leaf(<<Program(<<"a", "=", "b">>)>>), Leaf(<<Program(v)>>))
IoTrees == {Composite("OP_PIPE", l, r) : l \in IoLeaves, r \in IoLeaves}
             \cup {Composite("OP_PIPE", AssignThen(PROG_WRITER), Leaf(<<Program(PROG_READER)>>)),
                   Composite("OP_PIPE", Leaf(<<Program(PROG_WRITER)>>), AssignThen(PROG_READER))}
\* cd, plain and redirected, before and after another command in one process.
Cd(ps) == SimpleCommand(<<STR_CD>>, ps)
CdLeaves == {Leaf(<<Cd(<<>>)>>), Leaf(<<Cd(<<<<"a">>>>)>>), Leaf(<<Cd(<<<<"a">>, <<"b">>>>)>>),
             Leaf(<<Redirected(Cd(<<<<"a">>>>), <<FILE_F>>, <<FILE_F>>, <<FILE_G>>, {})>>),
             Leaf(<<Redirected(Cd(<<<<"b">>>>), <<>>, <<FILE_G>>, <<FILE_G>>, {"IO_OUT_APPEND"})>>)}
CdTrees == {Composite(op, l, r) :
              op \in {"OP_SEQUENTIAL", "OP_CONDITIONAL_NZERO", "OP_CONDITIONAL_ZERO"},
              l \in CdLeaves \cup {Leaf(<<Program(<<"b", "=", "a">>)>>)},
              r \in CdLeaves \cup {Leaf(<<Program(PROG_WRITER)>>),
                                  Leaf(<<Program(<<"b", "=", "a">>)>>)}}
Trees == {<<>>} \cup {<<t>> : t \in LeafTrees \cup RedirLeaves \cup Depth1Trees \cup Depth2Trees
                                      \cup IoTrees \cup CdTrees}

\* Nodes are named by their path from the root (1 = cmd1, 2 = cmd2).
Paths == UNION {[1..k -> {1, 2}] : k \in 0..2}


(***************************************************************************)
(* String functions of the C library, as they compute.                     *)
(***************************************************************************)
\* strchr(s, ch) != NULL
Strchr(s, ch) == \E i \in 1..Len(s) : s[i] = ch

\* strspn(s, delim): length of the leading run of delim.
RECURSIVE Strspn(_, _)
Strspn(s, delim) ==
    IF s = <<>> \/ Head(s) # delim THEN 0 ELSE 1 + Strspn(Tail(s), delim)

\* strcspn(s, delim): length of the leading run without delim.
RECURSIVE Strcspn(_, _)
Strcspn(s, delim) ==
    IF s = <<>> \/ Head(s) = delim THEN 0 ELSE 1 + Strcspn(Tail(s), delim)

\* strtok_r(str, delim, &save) with one delimiter character: skips leading
\* delimiters, returns the token (NULL when nothing is left) and the saved rest.
StrtokR(str, delim) ==
    LET t == SubSeq(str, Strspn(str, delim) + 1, Len(str))
        n == Strcspn(t, delim)
    IN  IF t = <<>> THEN [token |-> <<>>, save |-> <<>>]
        ELSE IF n = Len(t) THEN [token |-> <<t>>, save |-> <<>>]
        ELSE [token |-> <<SubSeq(t, 1, n)>>, save |-> SubSeq(t, n + 2, Len(t))]

\* getenv(name) in the table e: NULL (<<>>) or a pointer to the value.
Getenv(e, name) == IF name \in DOMAIN e THEN <<e[name]>> ELSE <<>>

\* setenv(name, value, 1) on the table e: the return code and the new table.
Setenv(e, name, value) ==
    IF name = <<>> \/ Strchr(name, "=")
    THEN [rc |-> -1, env |-> e]
    ELSE [rc |-> 0,
          env |-> [n \in DOMAIN e \cup {name} |-> IF n = name THEN value ELSE e[n]]]

\* The assignment branch of parse_simple on the verb cmd in the table e.
Assign(e, cmd) ==
    LET first  == StrtokR(cmd, "=")
        second == StrtokR(first.save, "=")
        name   == first.token
        value  == second.token
    IN  IF name # <<>> /\ value # <<>>
        THEN Setenv(e, name[1], value[1])
        ELSE [rc |-> -1, env |-> e]

\* shell_cd(dir) in the working directory d: the result and the new directory.
\* shell_cd with a bug: with several parameters it changes to the first.
ShellCdFirstOfMany(d, params) ==
    IF params = <<>> THEN [res |-> TRUE, cwd |-> d, tried |-> FALSE]
    ELSE IF params[1] \in {<<"a">>} THEN [res |-> TRUE, cwd |-> params[1], tried |-> TRUE]
    ELSE [res |-> FALSE, cwd |-> d, tried |-> TRUE]

\* tried tells whether chdir() was called.
ShellCd(d, params) ==
    IF params = <<>> THEN [res |-> TRUE, cwd |-> d, tried |-> FALSE]
    ELSE IF Len(params) > 1 THEN [res |-> FALSE, cwd |-> d, tried |-> FALSE]
    ELSE IF params[1] \in ExistingDirs THEN [res |-> TRUE, cwd |-> params[1], tried |-> TRUE]
    ELSE [res |-> FALSE, cwd |-> d, tried |-> TRUE]

\* A bool converted to int, as a C return statement converts it.
BoolToInt(b) == IF b THEN 1 ELSE 0

\* exit(v) leaves the low eight bits of v in the wait status.
ExitStatus(v) == (v % 256) * 256
WEXITSTATUS(s) == (s \div 256) % 256

\* The environment and directory the shell starts in.
InitEnv == [n \in {<<"a">>} |-> <<"a", "a">>]
InitCwd == <<"b">>

(***************************************************************************)
(* Descriptors.  A descriptor table maps the numbers 0..MaxFds-1 to open    *)
(* file descriptions (0: closed); descriptions are numbered in the order   *)
(* they are created and carry what was written and read through them.  A   *)
(* pipe is two descriptions, the read end and right after it the write     *)
(* end, which holds the bytes in flight.                                   *)
(***************************************************************************)
FdNums == 0..(MaxFds - 1)
STDIN_FILENO == 0
STDOUT_FILENO == 1
STDERR_FILENO == 2
NoFds == [fd \in FdNums |-> 0]

Ofd(kind, path, append) ==
    [kind |-> kind, path |-> path, append |-> append,
     written |-> <<>>, readlog |-> <<>>, buf |-> <<>>]

\* The lowest free descriptor number, -1 when the table is full (EMFILE).
LowestFree(tbl) ==
    IF \A fd \in FdNums : tbl[fd] # 0 THEN -1
    ELSE CHOOSE fd \in FdNums : tbl[fd] = 0 /\ \A g \in FdNums : tbl[g] = 0 => fd <= g

IsOpen(tbl, fd) == fd \in FdNums /\ tbl[fd] # 0

\* dup(fd): the new descriptor (-1 on failure) and the table.
Dup(tbl, fd) ==
    LET n == LowestFree(tbl) IN
    IF ~IsOpen(tbl, fd) \/ n = -1 THEN [fd |-> -1, fds |-> tbl]
    ELSE [fd |-> n, fds |-> [tbl EXCEPT ![n] = tbl[fd]]]

\* dup2(old, new): fails (EBADF) and changes nothing when old is not open.
Dup2(tbl, old, new) ==
    IF ~IsOpen(tbl, old) THEN tbl ELSE [tbl EXCEPT ![new] = tbl[old]]

\* close(fd)
Close(tbl, fd) == IF fd \in FdNums THEN [tbl EXCEPT ![fd] = 0] ELSE tbl

\* open(path, ...) in the state st of one process (its table, the
\* descriptions, the files): st.ok tells whether it succeeded, st.fd is the
\* descriptor.  Reading needs an existing file; writing creates the file and
\* fails on a directory; both fail on a full table.
OpenFile(st, path, write, trunc, append) ==
    LET n == LowestFree(st.fds)
        can == /\ n # -1
               /\ IF write THEN path \notin ExistingDirs ELSE st.files[path].exists
    IN  IF ~can THEN [st EXCEPT !.ok = FALSE, !.fd = -1]
        ELSE [ok |-> TRUE, fd |-> n,
              fds |-> [st.fds EXCEPT ![n] = Len(st.ofds) + 1],
              ofds |-> Append(st.ofds, Ofd("file", path, append)),
              files |-> [st.files EXCEPT
                           ![path] = [exists |-> TRUE,
                                      opens |-> @.opens + 1,
                                      truncs |-> @.truncs + (IF write /\ trunc THEN 1 ELSE 0)]]]

\* write(): one byte through the description id; a pipe's write end also
\* queues it for the reader.
WriteTo(o, id, byte) ==
    [o EXCEPT ![id].written = Append(@, byte),
              ![id].buf = IF o[id].kind = "pipe_w" THEN Append(@, byte) ELSE @]

\* The input redirection with a bug: a failed open() is ignored.
RedirInIgnoresFailure(st, s) ==
    IF ~st.ok \/ s.in = <<>> THEN st
    ELSE LET o == OpenFile(st, s.in[1], FALSE, FALSE, FALSE) IN
         IF ~o.ok THEN st
         ELSE [o EXCEPT !.fds = Close(Dup2(o.fds, o.fd, STDIN_FILENO), o.fd)]

\* if (s->in && s->in->string) { fd = open(..., O_RDONLY); DIE; dup2; close }
RedirIn(st, s) ==
    IF ~st.ok \/ s.in = <<>> THEN st
    ELSE LET o == OpenFile(st, s.in[1], FALSE, FALSE, FALSE) IN
         IF ~o.ok THEN o
         ELSE [o EXCEPT !.fds = Close(Dup2(o.fds, o.fd, STDIN_FILENO), o.fd)]

\* if (s->out && s->out->string) { fd = open(..., O_CREAT | O_WRONLY | flag); ... }
RedirOut(st, s) ==
    IF ~st.ok \/ s.out = <<>> THEN st
    ELSE LET app == "IO_OUT_APPEND" \in s.io_flags
             o == OpenFile(st, s.out[1], TRUE, ~app, app)
         IN  IF ~o.ok THEN o
             ELSE [o EXCEPT !.fds = Close(Dup2(o.fds, o.fd, STDOUT_FILENO), o.fd)]

\* if (s->err && s->err->string) { fd = open(..., O_CREAT | O_WRONLY | flag); ... }
RedirErr(st, s) ==
    IF ~st.ok \/ s.err = <<>> THEN st
    ELSE LET app == "IO_ERR_APPEND" \in s.io_flags
             o == OpenFile(st, s.err[1], TRUE, ~app, app)
         IN  IF ~o.ok THEN o
             ELSE [o EXCEPT !.fds = Close(Dup2(o.fds, o.fd, STDERR_FILENO), o.fd)]

\* if (s->out && s->err && strcmp(out, err) == 0) dup2(STDOUT_FILENO, STDERR_FILENO);
RedirAlias(st, s) ==
    IF st.ok /\ s.out # <<>> /\ s.err # <<>> /\ s.out[1] = s.err[1]
    THEN [st EXCEPT !.fds = Dup2(st.fds, STDOUT_FILENO, STDERR_FILENO)]
    ELSE st

\* solve_redirection(s): input, output, error, then the alias; a failed open
\* stops it (st.ok = FALSE: the caller's DIE).
SolveRedirection(st, s) == RedirAlias(RedirErr(RedirOut(RedirIn(st, s), s), s), s)

\* saved_stdin = dup(0); saved_stdout = dup(1); saved_stderr = dup(2);
SaveStd(tbl) ==
    LET d0 == Dup(tbl, STDIN_FILENO)
        d1 == Dup(d0.fds, STDOUT_FILENO)
        d2 == Dup(d1.fds, STDERR_FILENO)
    IN  [fds |-> d2.fds, saved |-> <<d0.fd, d1.fd, d2.fd>>]

\* restore_redirection with a bug: only the standard input is put back.
RestoreStdinOnly(tbl, saved) ==
    Close(Close(Close(Dup2(tbl, saved[1], STDIN_FILENO), saved[1]), saved[2]), saved[3])

\* restore_redirection(saved_stdin, saved_stdout, saved_stderr)
RestoreRedirection(tbl, saved) ==
    LET t0 == Close(Dup2(tbl, saved[1], STDIN_FILENO), saved[1])
        t1 == Close(Dup2(t0, saved[2], STDOUT_FILENO), saved[2])
    IN  Close(Dup2(t1, saved[3], STDERR_FILENO), saved[3])

(***************************************************************************)
(* State.                                                                  *)
(***************************************************************************)
VARIABLES
    tree,       \* the command tree handed to parse_command (NULL or a node)
    pstate,     \* per pid: "free", "run", "zombie" (exited, not waited for), "reaped"
    ppid,       \* per pid: the parent's pid (0: none)
    image,      \* per pid: "shell", or "program" after a successful execvp
    stack,      \* per pid: the call stack, innermost frame first
    ret,        \* per pid: the value the last returning call returned
    env,        \* per pid: the environment table
    cwd,        \* per pid: the working directory
    wstatus,    \* per pid: the wait status left by exit()
    started,    \* per node: how many times parse_command was called on it
    retval,     \* per node: what parse_command returned for it (<<>>: not yet)
    execRet,    \* per node: what parse_simple / run_in_parallel / run_on_pipe returned
    spawned,    \* per node: the pids forked while executing that node itself
    reaped,     \* per pid: how many times a waitpid() collected it
    fds,        \* per pid: the descriptor table
    ofds,       \* the open file descriptions, in the order they were created
    files,      \* per path: whether it exists, how often it was opened and truncated
    chdirs,     \* per node: how many times chdir() was called for it
    prog,       \* per pid: what the executed program still has to do, and what
                \* it has written to descriptor 1 and read from descriptor 0
    pipeOf      \* per node: the write end of the pipe run_on_pipe made for it (0: none)

procVars == <<pstate, ppid, image, wstatus>>
memVars  == <<env, cwd>>
histVars == <<started, retval, execRet, spawned, reaped>>
descVars == <<ofds, files, chdirs, prog, pipeOf>>
vars == <<tree, pstate, ppid, image, stack, ret, env, cwd, wstatus,
          started, retval, execRet, spawned, reaped, fds, ofds, files, chdirs, prog, pipeOf>>

\* The node a path names in the tree: NULL (<<>>) or a pointer to it.
RECURSIVE Walk(_, _)
Walk(t, path) ==
    IF path = <<>> \/ t = <<>> THEN t
    ELSE Walk(IF Head(path) = 1 THEN t[1].cmd1 ELSE t[1].cmd2, Tail(path))

NodeAt(path) == Walk(tree, path)

\* A stack frame: the function, the node it works on, where it stands, and
\* its locals.
Frame(fn, c, pc) ==
    [fn |-> fn, c |-> c, pc |-> pc,
     pid_cmd1 |-> 0, pid_cmd2 |-> 0, status_cmd1 |-> 0, status_cmd2 |-> 0,
     saved |-> <<-1, -1, -1>>, pipe_des |-> <<-1, -1>>]

Top(p) == Head(stack[p])

At(p, fn, pc) ==
    /\ pstate[p] = "run"
    /\ image[p] = "shell"
    /\ stack[p] # <<>>
    /\ Top(p).fn = fn
    /\ Top(p).pc = pc

\* The pid the next successful fork() hands out; pids are not reused.
FreePids == {q \in Pids : pstate[q] = "free"}
NextPid == CHOOSE q \in FreePids : \A r \in FreePids : q <= r

Init ==
    /\ tree \in Trees
    /\ pstate = [p \in Pids |-> IF p = Shell THEN "run" ELSE "free"]
    /\ ppid = [p \in Pids |-> 0]
    /\ image = [p \in Pids |-> "shell"]
    /\ stack = [p \in Pids |->
                  IF p = Shell THEN <<Frame("parse_command", <<>>, "start")>> ELSE <<>>]
    /\ ret = [p \in Pids |-> 0]
    /\ env = [p \in Pids |-> InitEnv]
    /\ cwd = [p \in Pids |-> InitCwd]
    /\ wstatus = [p \in Pids |-> 0]
    /\ started = [q \in Paths |-> IF q = <<>> THEN 1 ELSE 0]
    /\ retval = [q \in Paths |-> <<>>]
    /\ execRet = [q \in Paths |-> <<>>]
    /\ spawned = [q \in Paths |-> {}]
    /\ reaped = [p \in Pids |-> 0]
    /\ fds = [p \in Pids |->
                IF p = Shell
                THEN [fd \in FdNums |-> IF fd <= STDERR_FILENO THEN fd + 1 ELSE 0]
                ELSE NoFds]
    /\ ofds = <<Ofd("tty", <<>>, FALSE), Ofd("tty", <<>>, FALSE), Ofd("tty", <<>>, FALSE)>>
    /\ files = [f \in FilePaths |-> [exists |-> f # FILE_G, opens |-> 0, truncs |-> 0]]
    /\ chdirs = [q \in Paths |-> 0]
    /\ prog = [p \in Pids |-> NoProgram]
    /\ pipeOf = [q \in Paths |-> 0]

(***************************************************************************)
(* Steps every function shares: call, return, fork, exit, wait.            *)
(***************************************************************************)
\* p calls parse_command on the node at path c and will resume at pc.
Call(p, c, pc) ==
    /\ stack' = [stack EXCEPT ![p] =
                   <<Frame("parse_command", c, "start"), [Top(p) EXCEPT !.pc = pc]>>
                     \o Tail(stack[p])]
    /\ started' = [started EXCEPT ![c] = @ + 1]

\* p calls fn (parse_simple or an executor) on its own node and will resume at pc.
Delegate(p, fn, firstPc, pc) ==
    stack' = [stack EXCEPT ![p] =
                <<Frame(fn, Top(p).c, firstPc), [Top(p) EXCEPT !.pc = pc]>>
                  \o Tail(stack[p])]

\* The innermost call of p returns v.
Return(p, v) ==
    /\ stack' = [stack EXCEPT ![p] = Tail(stack[p])]
    /\ ret' = [ret EXCEPT ![p] = v]
    /\ retval' = IF Top(p).fn = "parse_command"
                 THEN [retval EXCEPT ![Top(p).c] = <<v>>] ELSE retval
    /\ execRet' = IF Top(p).fn # "parse_command"
                  THEN [execRet EXCEPT ![Top(p).c] = <<v>>] ELSE execRet

\* p ends with the wait status ws: its descriptors are closed, and it stays
\* a zombie until its parent waits for it.
Terminate(p, ws) ==
    /\ pstate' = [pstate EXCEPT ![p] = "zombie"]
    /\ wstatus' = [wstatus EXCEPT ![p] = ws]
    /\ stack' = [stack EXCEPT ![p] = <<>>]
    /\ fds' = [fds EXCEPT ![p] = NoFds]

\* exit(v) in p
Exit(p, v) == Terminate(p, ExitStatus(v))

\* DIE(1, ...): a diagnostic, then exit(EXIT_FAILURE).
Die(p) == Exit(p, EXIT_FAILURE)

\* Fork with a bug: the child starts from the initial environment instead of
\* a copy of its parent's.
ForkFreshEnv(p, field, parentPc, childPc) ==
    LET q == NextPid IN
    /\ FreePids # {}
    /\ pstate' = [pstate EXCEPT ![q] = "run"]
    /\ ppid' = [ppid EXCEPT ![q] = p]
    /\ stack' = [stack EXCEPT
                   ![p] = <<[Top(p) EXCEPT !.pc = parentPc, ![field] = q]>> \o Tail(stack[p]),
                   ![q] = <<[Top(p) EXCEPT !.pc = childPc, ![field] = 0]>> \o Tail(stack[p])]
    /\ ret' = [ret EXCEPT ![q] = ret[p]]
    /\ env' = [env EXCEPT ![q] = InitEnv]
    /\ cwd' = [cwd EXCEPT ![q] = cwd[p]]
    /\ fds' = [fds EXCEPT ![q] = fds[p]]
    /\ spawned' = [spawned EXCEPT ![Top(p).c] = @ \cup {q}]
    /\ UNCHANGED <<tree, image, wstatus, started, retval, execRet, reaped, descVars>>

\* fork() succeeds in p: the child is a copy of p (stack, environment, working
\* directory); the parent goes on at parentPc with the pid in field, the child
\* at childPc with 0.
Fork(p, field, parentPc, childPc) ==
    LET q == NextPid IN
    /\ FreePids # {}
    /\ pstate' = [pstate EXCEPT ![q] = "run"]
    /\ ppid' = [ppid EXCEPT ![q] = p]
    /\ stack' = [stack EXCEPT
                   ![p] = <<[Top(p) EXCEPT !.pc = parentPc, ![field] = q]>> \o Tail(stack[p]),
                   ![q] = <<[Top(p) EXCEPT !.pc = childPc, ![field] = 0]>> \o Tail(stack[p])]
    /\ ret' = [ret EXCEPT ![q] = ret[p]]
    /\ env' = [env EXCEPT ![q] = env[p]]
    /\ cwd' = [cwd EXCEPT ![q] = cwd[p]]
    /\ fds' = [fds EXCEPT ![q] = fds[p]]
    /\ spawned' = [spawned EXCEPT ![Top(p).c] = @ \cup {q}]
    /\ UNCHANGED <<tree, image, wstatus, started, retval, execRet, reaped, descVars>>

\* waitpid(pid, &status, 0) in p blocks until pid has exited, then collects it.
CanWait(pid) == pstate[pid] = "zombie"
Reap(pid) ==
    /\ pstate' = [pstate EXCEPT ![pid] = "reaped"]
    /\ reaped' = [reaped EXCEPT ![pid] = @ + 1]

(***************************************************************************)
(* parse_command                                                           *)
(***************************************************************************)
Node(p) == NodeAt(Top(p).c)
Op(p) == Node(p)[1].op
Left(p) == Append(Top(p).c, 1)
Right(p) == Append(Top(p).c, 2)

\* if (!c) return 0;
ParseCommandNull(p) ==
    /\ At(p, "parse_command", "start")
    /\ Node(p) = <<>>
    /\ Return(p, 0)
    /\ UNCHANGED <<tree, fds, descVars, procVars, memVars, started, spawned, reaped>>

\* if (c->op == OP_NONE) return parse_simple(c->scmd, level, father);
ParseCommandLeaf(p) ==
    /\ At(p, "parse_command", "start")
    /\ Node(p) # <<>> /\ Op(p) = "OP_NONE"
    /\ Delegate(p, "parse_simple", "start", "return")
    /\ UNCHANGED <<tree, fds, descVars, procVars, memVars, ret, histVars>>

\* case OP_SEQUENTIAL: parse_command(c->cmd1, ...);
ParseCommandSequential(p) ==
    /\ At(p, "parse_command", "start")
    /\ Node(p) # <<>> /\ Op(p) = "OP_SEQUENTIAL"
    /\ Call(p, Left(p), "sequential_right")
    /\ UNCHANGED <<tree, fds, descVars, procVars, memVars, ret, retval, execRet, spawned, reaped>>

\* SequentialRight with a bug: cmd2 runs only when cmd1 returned 0.
SequentialStopsOnFailure(p) ==
    /\ At(p, "parse_command", "sequential_right")
    /\ \/ /\ ret[p] = 0
          /\ Call(p, Right(p), "return")
          /\ UNCHANGED <<ret, retval, execRet>>
       \/ /\ ret[p] # 0
          /\ Return(p, ret[p])
          /\ UNCHANGED started
    /\ UNCHANGED <<tree, fds, descVars, procVars, memVars, spawned, reaped>>

\* ... return parse_command(c->cmd2, ...);  The result of cmd1 is dropped.
SequentialRight(p) ==
    /\ At(p, "parse_command", "sequential_right")
    /\ Call(p, Right(p), "return")
    /\ UNCHANGED <<tree, fds, descVars, procVars, memVars, ret, retval, execRet, spawned, reaped>>

\* case OP_PARALLEL: return run_in_parallel(c->cmd1, c->cmd2, level, c);
ParseCommandParallel(p) ==
    /\ At(p, "parse_command", "start")
    /\ Node(p) # <<>> /\ Op(p) = "OP_PARALLEL"
    /\ Delegate(p, "run_in_parallel", "fork1", "return")
    /\ UNCHANGED <<tree, fds, descVars, procVars, memVars, ret, histVars>>

\* case OP_CONDITIONAL_NZERO: if (parse_command(c->cmd1, ...) != 0)
ParseCommandNZero(p) ==
    /\ At(p, "parse_command", "start")
    /\ Node(p) # <<>> /\ Op(p) = "OP_CONDITIONAL_NZERO"
    /\ Call(p, Left(p), "nzero_test")
    /\ UNCHANGED <<tree, fds, descVars, procVars, memVars, ret, retval, execRet, spawned, reaped>>

\* NZeroRunsRight with a bug: only a positive status counts as a failure.
NZeroRunsRightPositive(r) == r > 0

\* The test of OP_CONDITIONAL_NZERO on the result of cmd1.
NZeroRunsRight(r) == r # 0

\* ... return parse_command(c->cmd2, ...);  or  break; return 0;
NZeroTest(p) ==
    /\ At(p, "parse_command", "nzero_test")
    /\ \/ /\ NZeroRunsRight(ret[p])
          /\ Call(p, Right(p), "return")
          /\ UNCHANGED <<ret, retval, execRet>>
       \/ /\ ~NZeroRunsRight(ret[p])
          /\ Return(p, 0)
          /\ UNCHANGED started
    /\ UNCHANGED <<tree, fds, descVars, procVars, memVars, spawned, reaped>>

\* case OP_CONDITIONAL_ZERO: if (parse_command(c->cmd1, ...) == 0)
ParseCommandZero(p) ==
    /\ At(p, "parse_command", "start")
    /\ Node(p) # <<>> /\ Op(p) = "OP_CONDITIONAL_ZERO"
    /\ Call(p, Left(p), "zero_test")
    /\ UNCHANGED <<tree, fds, descVars, procVars, memVars, ret, retval, execRet, spawned, reaped>>

\* The test of OP_CONDITIONAL_ZERO on the result of cmd1.
ZeroRunsRight(r) == r = 0

\* ZeroTest with a bug (the conventional AND): a failing cmd1 gives its own
\* status instead of 0.
ZeroTestReturnsLeft(p) ==
    /\ At(p, "parse_command", "zero_test")
    /\ \/ /\ ZeroRunsRight(ret[p])
          /\ Call(p, Right(p), "return")
          /\ UNCHANGED <<ret, retval, execRet>>
       \/ /\ ~ZeroRunsRight(ret[p])
          /\ Return(p, ret[p])
          /\ UNCHANGED started
    /\ UNCHANGED <<tree, fds, descVars, procVars, memVars, spawned, reaped>>

\* ... return parse_command(c->cmd2, ...);  or  break; return 0;
ZeroTest(p) ==
    /\ At(p, "parse_command", "zero_test")
    /\ \/ /\ ZeroRunsRight(ret[p])
          /\ Call(p, Right(p), "return")
          /\ UNCHANGED <<ret, retval, execRet>>
       \/ /\ ~ZeroRunsRight(ret[p])
          /\ Return(p, 0)
          /\ UNCHANGED started
    /\ UNCHANGED <<tree, fds, descVars, procVars, memVars, spawned, reaped>>

\* case OP_PIPE: return run_on_pipe(c->cmd1, c->cmd2, level, c);
ParseCommandPipe(p) ==
    /\ At(p, "parse_command", "start")
    /\ Node(p) # <<>> /\ Op(p) = "OP_PIPE"
    /\ Delegate(p, "run_on_pipe", "pipe", "return")
    /\ UNCHANGED <<tree, fds, descVars, procVars, memVars, ret, histVars>>

\* default: return SHELL_EXIT;
ParseCommandDefault(p) ==
    /\ At(p, "parse_command", "start")
    /\ Node(p) # <<>> /\ Op(p) \notin Operators \cup {"OP_NONE"}
    /\ Return(p, SHELL_EXIT)
    /\ UNCHANGED <<tree, fds, descVars, procVars, memVars, started, spawned, reaped>>

\* return <the value of the call just made>;
ParseCommandReturn(p) ==
    /\ At(p, "parse_command", "return")
    /\ Return(p, ret[p])
    /\ UNCHANGED <<tree, fds, descVars, procVars, memVars, started, spawned, reaped>>

(***************************************************************************)
(* parse_simple.  Its locals pid and status live in pid_cmd1, status_cmd1. *)
(***************************************************************************)
Scmd(p) == Node(p)[1].scmd
HasVerb(p) == Scmd(p) # <<>> /\ Scmd(p)[1].verb # <<>>
Cmd(p) == Scmd(p)[1].verb[1]
IsExternal(cmd) == cmd # STR_CD /\ cmd # STR_EXIT /\ cmd # STR_QUIT /\ ~Strchr(cmd, "=")

\* if (!s || !s->verb->string) return -1;
ParseSimpleNoVerb(p) ==
    /\ At(p, "parse_simple", "start")
    /\ ~HasVerb(p)
    /\ Return(p, -1)
    /\ UNCHANGED <<tree, fds, descVars, procVars, memVars, started, spawned, reaped>>

\* saved_stdin = dup(STDIN_FILENO); saved_stdout = dup(STDOUT_FILENO);
\* saved_stderr = dup(STDERR_FILENO);  taken before the verb is looked at.
ParseSimpleSave(p) ==
    /\ At(p, "parse_simple", "start")
    /\ HasVerb(p)
    /\ LET sv == SaveStd(fds[p]) IN
         /\ fds' = [fds EXCEPT ![p] = sv.fds]
         /\ stack' = [stack EXCEPT ![p] =
                        <<[Top(p) EXCEPT !.pc = "dispatch", !.saved = sv.saved]>>
                          \o Tail(stack[p])]
    /\ UNCHANGED <<tree, procVars, memVars, ret, histVars, descVars>>

\* solve_redirection(s) as p would run it now.
Solved(p) ==
    SolveRedirection([ok |-> TRUE, fd |-> -1, fds |-> fds[p], ofds |-> ofds, files |-> files],
                     Scmd(p)[1])

\* if (strcmp(cmd, "cd") == 0) { solve_redirection(s); res = shell_cd(s->params);
\*   restore_redirection(...); return res ? 0 : 1; }
ParseSimpleCd(p) ==
    /\ At(p, "parse_simple", "dispatch")
    /\ Cmd(p) = STR_CD
    /\ Solved(p).ok
    /\ LET st == Solved(p)
           r == ShellCd(cwd[p], Scmd(p)[1].params)
       IN  /\ ofds' = st.ofds
           /\ files' = st.files
           /\ fds' = [fds EXCEPT ![p] = RestoreRedirection(st.fds, Top(p).saved)]
           /\ cwd' = [cwd EXCEPT ![p] = r.cwd]
           /\ chdirs' = [chdirs EXCEPT ![Top(p).c] = @ + (IF r.tried THEN 1 ELSE 0)]
           /\ Return(p, IF r.res THEN 0 ELSE 1)
    /\ UNCHANGED <<tree, procVars, env, started, spawned, reaped, prog, pipeOf>>

\* cd: an open() of solve_redirection fails, DIE(1, "... fd").
ParseSimpleCdDie(p) ==
    /\ At(p, "parse_simple", "dispatch")
    /\ Cmd(p) = STR_CD
    /\ ~Solved(p).ok
    /\ ofds' = Solved(p).ofds
    /\ files' = Solved(p).files
    /\ Die(p)
    /\ UNCHANGED <<tree, ppid, image, ret, memVars, histVars, chdirs, prog, pipeOf>>

\* if (strcmp(cmd, "exit") == 0 || strcmp(cmd, "quit") == 0) return shell_exit();
ParseSimpleExit(p) ==
    /\ At(p, "parse_simple", "dispatch")
    /\ Cmd(p) \in {STR_EXIT, STR_QUIT}
    /\ Return(p, SHELL_EXIT)
    /\ UNCHANGED <<tree, procVars, memVars, started, spawned, reaped, fds, descVars>>

\* The assignment branch with a bug: it forks, as for an external command.
ParseSimpleAssignForks(p) ==
    /\ At(p, "parse_simple", "dispatch")
    /\ Cmd(p) \notin {STR_CD, STR_EXIT, STR_QUIT}
    /\ Strchr(Cmd(p), "=")
    /\ Fork(p, "pid_cmd1", "wait", "child")

\* if (strchr(cmd, '=')) { ... return result; ... return -1; }
ParseSimpleAssign(p) ==
    /\ At(p, "parse_simple", "dispatch")
    /\ Cmd(p) \notin {STR_CD, STR_EXIT, STR_QUIT}
    /\ Strchr(Cmd(p), "=")
    /\ LET r == Assign(env[p], Cmd(p)) IN
         /\ env' = [env EXCEPT ![p] = r.env]
         /\ Return(p, r.rc)
    /\ UNCHANGED <<tree, procVars, cwd, started, spawned, reaped, fds, descVars>>

\* pid = fork();  succeeds
ParseSimpleFork(p) ==
    /\ At(p, "parse_simple", "dispatch")
    /\ IsExternal(Cmd(p))
    /\ Fork(p, "pid_cmd1", "wait", "child")

\* pid = fork();  if (pid == -1) DIE(1, "fork");
ParseSimpleForkFail(p) ==
    /\ At(p, "parse_simple", "dispatch")
    /\ IsExternal(Cmd(p))
    /\ Die(p)
    /\ UNCHANGED <<tree, ppid, image, ret, memVars, histVars, descVars>>

\* In the child: an open() of solve_redirection fails, DIE(1, "... fd").
ChildRedirDie(p) ==
    /\ At(p, "parse_simple", "child")
    /\ ~Solved(p).ok
    /\ ofds' = Solved(p).ofds
    /\ files' = Solved(p).files
    /\ Die(p)
    /\ UNCHANGED <<tree, ppid, image, ret, memVars, histVars, chdirs, prog, pipeOf>>

\* In the child: solve_redirection(s), then execvp(commmand[0], commmand)
\* replaces the process image.
ChildExec(p) ==
    /\ At(p, "parse_simple", "child")
    /\ Solved(p).ok
    /\ Cmd(p) \in InstalledPrograms
    /\ ofds' = Solved(p).ofds
    /\ files' = Solved(p).files
    /\ fds' = [fds EXCEPT ![p] = Solved(p).fds]
    /\ image' = [image EXCEPT ![p] = "program"]
    /\ prog' = [prog EXCEPT ![p] = ProgramOf(Cmd(p))]
    /\ stack' = [stack EXCEPT ![p] = <<>>]
    /\ UNCHANGED <<tree, pstate, ppid, wstatus, ret, memVars, histVars, chdirs, pipeOf>>

\* In the child: solve_redirection(s), execvp fails; the diagnostic on the
\* standard error, then exit(EXIT_FAILURE).
ChildExecFail(p) ==
    /\ At(p, "parse_simple", "child")
    /\ Solved(p).ok
    /\ Cmd(p) \notin InstalledPrograms
    /\ ofds' = WriteTo(Solved(p).ofds, Solved(p).fds[STDERR_FILENO], "!")
    /\ files' = Solved(p).files
    /\ Exit(p, EXIT_FAILURE)
    /\ UNCHANGED <<tree, ppid, image, ret, memVars, histVars, chdirs, prog, pipeOf>>

\* The processes that hold the description id open.
Holders(id) == {q \in Pids : \E fd \in FdNums : fds[q][fd] = id}

Running(p) == pstate[p] = "run" /\ image[p] = "program"

\* The program writes its next byte to descriptor 1: into the pipe when that
\* is a pipe with room and a reader, else to the file or terminal.
ProgramWrite(p) ==
    /\ Running(p)
    /\ prog[p].out # <<>>
    /\ LET id == fds[p][STDOUT_FILENO] IN
         /\ ofds[id].kind = "pipe_w" =>
               Holders(id - 1) # {} /\ Len(ofds[id].buf) < PipeCap
         /\ ofds' = WriteTo(ofds, id, Head(prog[p].out))
    /\ prog' = [prog EXCEPT ![p].out = Tail(@), ![p].wrote = Append(@, Head(prog[p].out))]
    /\ UNCHANGED <<tree, procVars, stack, ret, memVars, histVars, fds, files, chdirs, pipeOf>>

\* The program writes to a pipe whose read end nobody holds: SIGPIPE kills it.
ProgramSigpipe(p) ==
    /\ Running(p)
    /\ prog[p].out # <<>>
    /\ ofds[fds[p][STDOUT_FILENO]].kind = "pipe_w"
    /\ Holders(fds[p][STDOUT_FILENO] - 1) = {}
    /\ Terminate(p, SIGPIPE)
    /\ UNCHANGED <<tree, ppid, image, ret, memVars, histVars, descVars>>

\* The program reads one byte from descriptor 0, a pipe with bytes in flight.
ProgramRead(p) ==
    /\ Running(p)
    /\ prog[p].reads
    /\ LET id == fds[p][STDIN_FILENO] IN
         /\ ofds[id].kind = "pipe_r"
         /\ ofds[id + 1].buf # <<>>
         /\ ofds' = [ofds EXCEPT ![id].readlog = Append(@, Head(ofds[id + 1].buf)),
                                 ![id + 1].buf = Tail(@)]
         /\ prog' = [prog EXCEPT ![p].got = Append(@, Head(ofds[id + 1].buf))]
    /\ UNCHANGED <<tree, procVars, stack, ret, memVars, histVars, fds, files, chdirs, pipeOf>>

\* read() returns 0: an empty pipe whose write end nobody holds, or the end
\* of a file or terminal input.
ProgramEof(p) ==
    /\ Running(p)
    /\ prog[p].reads
    /\ LET id == fds[p][STDIN_FILENO] IN
         ofds[id].kind = "pipe_r" => ofds[id + 1].buf = <<>> /\ Holders(id + 1) = {}
    /\ prog' = [prog EXCEPT ![p].reads = FALSE]
    /\ UNCHANGED <<tree, procVars, stack, ret, memVars, histVars, fds, ofds, files, chdirs, pipeOf>>

\* The executed program, its input and output done, ends with an exit code.
ProgramExit(p) ==
    /\ Running(p)
    /\ prog[p].out = <<>> /\ ~prog[p].reads
    /\ \E code \in prog[p].codes : Exit(p, code)
    /\ UNCHANGED <<tree, ppid, image, ret, memVars, histVars, descVars>>

\* The parent of an external command with a bug: it reports success whatever
\* the child's status.
ParseSimpleWaitReturnsZero(p) ==
    /\ At(p, "parse_simple", "wait")
    /\ CanWait(Top(p).pid_cmd1)
    /\ Reap(Top(p).pid_cmd1)
    /\ Return(p, 0)
    /\ UNCHANGED <<tree, fds, descVars, ppid, image, wstatus, memVars, started, spawned>>

\* wait_ret = waitpid(pid, &status, 0); return WEXITSTATUS(status);
ParseSimpleWait(p) ==
    /\ At(p, "parse_simple", "wait")
    /\ CanWait(Top(p).pid_cmd1)
    /\ Reap(Top(p).pid_cmd1)
    /\ Return(p, WEXITSTATUS(wstatus[Top(p).pid_cmd1]))
    /\ UNCHANGED <<tree, fds, descVars, ppid, image, wstatus, memVars, started, spawned>>

(***************************************************************************)
(* run_in_parallel                                                         *)
(***************************************************************************)
\* The result of an executor from the two wait statuses.
BothZero(s1, s2) == WEXITSTATUS(s1) = 0 /\ WEXITSTATUS(s2) = 0

\* pid_cmd1 = fork();  succeeds
ParallelFork1(p) ==
    /\ At(p, "run_in_parallel", "fork1")
    /\ Fork(p, "pid_cmd1", "fork2", "child1")

\* if (pid_cmd1 == -1) return false;
ParallelFork1Fail(p) ==
    /\ At(p, "run_in_parallel", "fork1")
    /\ Return(p, BoolToInt(FALSE))
    /\ UNCHANGED <<tree, fds, descVars, procVars, memVars, started, spawned, reaped>>

\* pid_cmd2 = fork();  succeeds
ParallelFork2(p) ==
    /\ At(p, "run_in_parallel", "fork2")
    /\ Fork(p, "pid_cmd2", "wait1", "child2")

\* if (pid_cmd2 == -1) return false;
ParallelFork2Fail(p) ==
    /\ At(p, "run_in_parallel", "fork2")
    /\ Return(p, BoolToInt(FALSE))
    /\ UNCHANGED <<tree, fds, descVars, procVars, memVars, started, spawned, reaped>>

\* if (pid_cmd1 == 0) exit(parse_command(cmd1, level + 1, father));  the call
ParallelChild1(p) ==
    /\ At(p, "run_in_parallel", "child1")
    /\ Call(p, Left(p), "exit")
    /\ UNCHANGED <<tree, fds, descVars, procVars, memVars, ret, retval, execRet, spawned, reaped>>

\* if (pid_cmd2 == 0) exit(parse_command(cmd2, level + 1, father));  the call
ParallelChild2(p) ==
    /\ At(p, "run_in_parallel", "child2")
    /\ Call(p, Right(p), "exit")
    /\ UNCHANGED <<tree, fds, descVars, procVars, memVars, ret, retval, execRet, spawned, reaped>>

\* exit(<the value parse_command returned>) in a child of run_in_parallel
ParallelChildExit(p) ==
    /\ At(p, "run_in_parallel", "exit")
    /\ Exit(p, ret[p])
    /\ UNCHANGED <<tree, descVars, ppid, image, ret, memVars, histVars>>

\* waitpid(pid_cmd1, &status_cmd1, 0);
ParallelWait1(p) ==
    /\ At(p, "run_in_parallel", "wait1")
    /\ CanWait(Top(p).pid_cmd1)
    /\ Reap(Top(p).pid_cmd1)
    /\ stack' = [stack EXCEPT ![p] =
                   <<[Top(p) EXCEPT !.pc = "wait2",
                                    !.status_cmd1 = wstatus[Top(p).pid_cmd1]]>>
                     \o Tail(stack[p])]
    /\ UNCHANGED <<tree, fds, descVars, ppid, image, wstatus, ret, memVars,
                   started, retval, execRet, spawned>>

\* waitpid(pid_cmd2, &status_cmd2, 0); return (... == 0 && ... == 0);
ParallelWait2(p) ==
    /\ At(p, "run_in_parallel", "wait2")
    /\ CanWait(Top(p).pid_cmd2)
    /\ Reap(Top(p).pid_cmd2)
    /\ Return(p, BoolToInt(BothZero(Top(p).status_cmd1, wstatus[Top(p).pid_cmd2])))
    /\ UNCHANGED <<tree, fds, descVars, ppid, image, wstatus, memVars, started, spawned>>

(***************************************************************************)
(* run_on_pipe                                                             *)
(***************************************************************************)
\* rc = pipe(pipe_des);  succeeds
PipeCreate(p) ==
    /\ At(p, "run_on_pipe", "pipe")
    /\ LET r == LowestFree(fds[p])
           withR == IF r = -1 THEN fds[p] ELSE [fds[p] EXCEPT ![r] = Len(ofds) + 1]
           w == LowestFree(withR)
       IN  /\ r # -1 /\ w # -1
           /\ fds' = [fds EXCEPT ![p] = [withR EXCEPT ![w] = Len(ofds) + 2]]
           /\ ofds' = ofds \o <<Ofd("pipe_r", <<>>, FALSE), Ofd("pipe_w", <<>>, FALSE)>>
           /\ pipeOf' = [pipeOf EXCEPT ![Top(p).c] = Len(ofds) + 2]
           /\ stack' = [stack EXCEPT ![p] =
                          <<[Top(p) EXCEPT !.pc = "fork1", !.pipe_des = <<r, w>>]>>
                            \o Tail(stack[p])]
    /\ UNCHANGED <<tree, procVars, memVars, ret, histVars, files, chdirs, prog>>

\* DIE(rc < 0, "pipe");
PipeCreateFail(p) ==
    /\ At(p, "run_on_pipe", "pipe")
    /\ Die(p)
    /\ UNCHANGED <<tree, descVars, ppid, image, ret, memVars, histVars>>

\* pid_cmd1 = fork();  succeeds
PipeFork1(p) ==
    /\ At(p, "run_on_pipe", "fork1")
    /\ Fork(p, "pid_cmd1", "fork2", "child1")

\* if (pid_cmd1 == -1) { close both ends; DIE(pid_cmd1, "fork"); }
PipeFork1Fail(p) ==
    /\ At(p, "run_on_pipe", "fork1")
    /\ Die(p)
    /\ UNCHANGED <<tree, descVars, ppid, image, ret, memVars, histVars>>

\* pid_cmd2 = fork();  succeeds
PipeFork2(p) ==
    /\ At(p, "run_on_pipe", "fork2")
    /\ Fork(p, "pid_cmd2", "close", "child2")

\* if (pid_cmd2 == -1) { close both ends; DIE(pid_cmd2, "fork"); }
PipeFork2Fail(p) ==
    /\ At(p, "run_on_pipe", "fork2")
    /\ Die(p)
    /\ UNCHANGED <<tree, descVars, ppid, image, ret, memVars, histVars>>

\* The first child with a bug: it closes both ends of the pipe without making
\* the write end its standard output.
PipeChild1KeepsStdout(p) ==
    /\ At(p, "run_on_pipe", "child1")
    /\ fds' = [fds EXCEPT ![p] = Close(Close(@, Top(p).pipe_des[1]), Top(p).pipe_des[2])]
    /\ Call(p, Left(p), "exit")
    /\ UNCHANGED <<tree, procVars, memVars, ret, retval, execRet, spawned, reaped, descVars>>

\* if (pid_cmd1 == 0) { close(pipe_des[READ]); dup2(pipe_des[WRITE], STDOUT_FILENO);
\*   close(pipe_des[WRITE]); exit(parse_command(cmd1, level + 1, father)); }  the call
PipeChild1(p) ==
    /\ At(p, "run_on_pipe", "child1")
    /\ fds' = [fds EXCEPT ![p] =
                 Close(Dup2(Close(@, Top(p).pipe_des[1]), Top(p).pipe_des[2], STDOUT_FILENO),
                       Top(p).pipe_des[2])]
    /\ Call(p, Left(p), "exit")
    /\ UNCHANGED <<tree, procVars, memVars, ret, retval, execRet, spawned, reaped, descVars>>

\* if (pid_cmd2 == 0) { close(pipe_des[WRITE]); dup2(pipe_des[READ], STDIN_FILENO);
\*   close(pipe_des[READ]); exit(parse_command(cmd2, level + 1, father)); }  the call
PipeChild2(p) ==
    /\ At(p, "run_on_pipe", "child2")
    /\ fds' = [fds EXCEPT ![p] =
                 Close(Dup2(Close(@, Top(p).pipe_des[2]), Top(p).pipe_des[1], STDIN_FILENO),
                       Top(p).pipe_des[1])]
    /\ Call(p, Right(p), "exit")
    /\ UNCHANGED <<tree, procVars, memVars, ret, retval, execRet, spawned, reaped, descVars>>

\* exit(<the value parse_command returned>) in a child of run_on_pipe
PipeChildExit(p) ==
    /\ At(p, "run_on_pipe", "exit")
    /\ Exit(p, ret[p])
    /\ UNCHANGED <<tree, descVars, ppid, image, ret, memVars, histVars>>

\* The parent with a bug: it goes on to wait with both ends of the pipe open.
PipeParentKeepsEnds(p) ==
    /\ At(p, "run_on_pipe", "close")
    /\ stack' = [stack EXCEPT ![p] = <<[Top(p) EXCEPT !.pc = "wait1"]>> \o Tail(stack[p])]
    /\ UNCHANGED <<tree, fds, procVars, memVars, ret, histVars, descVars>>

\* close(pipe_des[READ]); close(pipe_des[WRITE]);  in the parent
PipeParentClose(p) ==
    /\ At(p, "run_on_pipe", "close")
    /\ fds' = [fds EXCEPT ![p] = Close(Close(@, Top(p).pipe_des[1]), Top(p).pipe_des[2])]
    /\ stack' = [stack EXCEPT ![p] = <<[Top(p) EXCEPT !.pc = "wait1"]>> \o Tail(stack[p])]
    /\ UNCHANGED <<tree, procVars, memVars, ret, histVars, descVars>>

\* waitpid(pid_cmd1, &status_cmd1, 0);
PipeWait1(p) ==
    /\ At(p, "run_on_pipe", "wait1")
    /\ CanWait(Top(p).pid_cmd1)
    /\ Reap(Top(p).pid_cmd1)
    /\ stack' = [stack EXCEPT ![p] =
                   <<[Top(p) EXCEPT !.pc = "wait2",
                                    !.status_cmd1 = wstatus[Top(p).pid_cmd1]]>>
                     \o Tail(stack[p])]
    /\ UNCHANGED <<tree, fds, descVars, ppid, image, wstatus, ret, memVars,
                   started, retval, execRet, spawned>>

\* waitpid(pid_cmd2, &status_cmd2, 0); return (... == 0 && ... == 0);
PipeWait2(p) ==
    /\ At(p, "run_on_pipe", "wait2")
    /\ CanWait(Top(p).pid_cmd2)
    /\ Reap(Top(p).pid_cmd2)
    /\ Return(p, BoolToInt(BothZero(Top(p).status_cmd1, wstatus[Top(p).pid_cmd2])))
    /\ UNCHANGED <<tree, fds, descVars, ppid, image, wstatus, memVars, started, spawned>>

(***************************************************************************)
(* The specification.                                                      *)
(***************************************************************************)
Next ==
    \E p \in Pids :
        \/ ParseCommandNull(p)
        \/ ParseCommandLeaf(p)
        \/ ParseCommandSequential(p)
        \/ SequentialRight(p)
        \/ ParseCommandParallel(p)
        \/ ParseCommandNZero(p)
        \/ NZeroTest(p)
        \/ ParseCommandZero(p)
        \/ ZeroTest(p)
        \/ ParseCommandPipe(p)
        \/ ParseCommandDefault(p)
        \/ ParseCommandReturn(p)
        \/ ParseSimpleNoVerb(p)
        \/ ParseSimpleSave(p)
        \/ ParseSimpleCd(p)
        \/ ParseSimpleCdDie(p)
        \/ ParseSimpleExit(p)
        \/ ParseSimpleAssign(p)
        \/ ParseSimpleFork(p)
        \/ ParseSimpleForkFail(p)
        \/ ChildRedirDie(p)
        \/ ChildExec(p)
        \/ ChildExecFail(p)
        \/ ProgramWrite(p)
        \/ ProgramSigpipe(p)
        \/ ProgramRead(p)
        \/ ProgramEof(p)
        \/ ProgramExit(p)
        \/ ParseSimpleWait(p)
        \/ ParallelFork1(p)
        \/ ParallelFork1Fail(p)
        \/ ParallelFork2(p)
        \/ ParallelFork2Fail(p)
        \/ ParallelChild1(p)
        \/ ParallelChild2(p)
        \/ ParallelChildExit(p)
        \/ ParallelWait1(p)
        \/ ParallelWait2(p)
        \/ PipeCreate(p)
        \/ PipeCreateFail(p)
        \/ PipeFork1(p)
        \/ PipeFork1Fail(p)
        \/ PipeFork2(p)
        \/ PipeFork2Fail(p)
        \/ PipeChild1(p)
        \/ PipeChild2(p)
        \/ PipeChildExit(p)
        \/ PipeParentClose(p)
        \/ PipeWait1(p)
        \/ PipeWait2(p)

Spec == Init /\ [][Next]_vars

\* The trees of the fair specification: pipelines of programs and built-ins,
\* and one small tree for every other kind of node and of simple command.
LeafOf(v) == Leaf(<<Program(v)>>)
FairTrees ==
    {<<>>} \cup {<<t>> : t \in
        {Composite("OP_PIPE", LeafOf(PROG_WRITER), LeafOf(PROG_READER)),
         Composite("OP_PIPE", LeafOf(PROG_WRITER), LeafOf(<<"a">>)),
         Composite("OP_PIPE", AssignThen(PROG_WRITER), LeafOf(PROG_READER)),
         Composite("OP_PIPE", LeafOf(PROG_WRITER), AssignThen(PROG_READER)),
         Composite("OP_PIPE", LeafOf(PROG_READER), LeafOf(PROG_WRITER)),
         Composite("OP_PIPE", LeafOf(<<"a", "=", "b">>), LeafOf(STR_EXIT)),
         Composite("OP_PARALLEL", LeafOf(<<"a", "=", "b">>), LeafOf(STR_EXIT)),
         Composite("OP_SEQUENTIAL", LeafOf(<<"a", "=", "b">>), LeafOf(STR_EXIT)),
         Composite("OP_CONDITIONAL_NZERO", LeafOf(<<"=">>), LeafOf(STR_EXIT)),
         Composite("OP_CONDITIONAL_ZERO", LeafOf(<<"a", "=", "b">>), LeafOf(STR_EXIT)),
         Composite("OP_DUMMY", LeafOf(STR_EXIT), LeafOf(STR_EXIT)),
         Leaf(<<>>),
         LeafOf(<<"b">>),
         Leaf(<<Cd(<<<<"a">>>>)>>),
         Leaf(<<Redirected(Cd(<<<<"a">>>>), <<FILE_G>>, <<>>, <<>>, {})>>),
         Leaf(<<Redirected(Program(<<"a">>), <<FILE_G>>, <<>>, <<>>, {})>>)}}

\* Every process that can take a step is scheduled in the end.  No behaviour
\* visits a state twice (each step moves a process forward), so weak fairness
\* of Next says the same as weak fairness of the steps of each process.
FairInit == Init /\ tree \in FairTrees
FairSpec == FairInit /\ [][Next]_vars /\ WF_vars(Next)

TypeOK ==
    /\ pstate \in [Pids -> {"free", "run", "zombie", "reaped"}]
    /\ image \in [Pids -> {"shell", "program"}]
    /\ \A p \in Pids : ppid[p] \in 0..MaxProcs /\ reaped[p] \in 0..1
    /\ \A q \in Paths : Len(retval[q]) <= 1 /\ Len(execRet[q]) <= 1
    /\ fds \in [Pids -> [FdNums -> 0..Len(ofds)]]
    /\ \A i \in 1..Len(ofds) : ofds[i].kind \in {"tty", "file", "pipe_r", "pipe_w"}
    /\ \A i \in 1..Len(ofds) : ofds[i].kind = "pipe_r" => ofds[i + 1].kind = "pipe_w"
    /\ \A i \in 1..Len(ofds) : Len(ofds[i].buf) <= PipeCap
    /\ \A p \in Pids : pstate[p] = "run" => \A fd \in 0..2 : fds[p][fd] # 0

(***************************************************************************)
(* Properties.                                                             *)
(***************************************************************************)
\* The operator tag of the node at path q ("" when there is no node).
OpAt(q) == IF NodeAt(q) = <<>> THEN "" ELSE NodeAt(q)[1].op
\* The composite nodes of the tree with the given tags.
NodesWith(ops) == {q \in Paths : Len(q) < 2 /\ OpAt(q) \in ops}
L(q) == Append(q, 1)
R(q) == Append(q, 2)
Returned(q) == retval[q] # <<>>

\* C1: for every PIPE or PARALLEL node, parse_command returns 0 when the
\* executor reported success and a nonzero value when it reported failure.
C1_ExecutorStatusTranslated ==
    \A q \in NodesWith({"OP_PIPE", "OP_PARALLEL"}) :
        Returned(q) =>
            /\ execRet[q] = <<BoolToInt(TRUE)>> => retval[q] = <<0>>
            /\ execRet[q] = <<BoolToInt(FALSE)>> => retval[q] # <<0>>

\* C2: when the evaluation of a sub-tree yields SHELL_EXIT, every enclosing
\* call of parse_command that returns, returns SHELL_EXIT, up to the top one.
C2_ExitPropagates ==
    \A q \in NodesWith(Operators) :
        /\ Returned(q)
        /\ retval[L(q)] = <<SHELL_EXIT>> \/ retval[R(q)] = <<SHELL_EXIT>>
        => retval[q] = <<SHELL_EXIT>>

\* C3: when the executor of a PIPE or PARALLEL node has returned, every child
\* it forked has terminated and has been collected exactly once by a waitpid.
C3_ChildrenReapedBeforeReturn ==
    \A q \in NodesWith({"OP_PIPE", "OP_PARALLEL"}) :
        execRet[q] # <<>> =>
            \A c \in spawned[q] : pstate[c] = "reaped" /\ reaped[c] = 1

\* A sub-tree succeeded: its executor reported success (PIPE, PARALLEL), or
\* its interpretation returned 0 (any other node).
Succeeded(q) ==
    IF OpAt(q) \in {"OP_PIPE", "OP_PARALLEL"}
    THEN execRet[q] = <<BoolToInt(TRUE)>>
    ELSE retval[q] = <<0>>

\* C4: the executor of a PARALLEL node reports success if and only if both
\* sub-trees succeeded, whatever kind of node they are.
C4_ParallelIffBothSucceed ==
    \A q \in NodesWith({"OP_PARALLEL"}) :
        execRet[q] # <<>> =>
            (execRet[q] = <<BoolToInt(TRUE)>> <=> Succeeded(L(q)) /\ Succeeded(R(q)))

\* C5: for a SEQUENTIAL node, cmd2 is not started before cmd1 has returned;
\* once cmd1 has returned (with any result) the process is about to start
\* cmd2 or has started it, exactly once; and the node returns what cmd2
\* returned.
C5_Sequential ==
    \A q \in NodesWith({"OP_SEQUENTIAL"}) :
        /\ started[R(q)] <= 1
        /\ started[R(q)] > 0 => Returned(L(q))
        /\ Returned(L(q)) /\ started[R(q)] = 0 =>
               \E p \in Pids : At(p, "parse_command", "sequential_right") /\ Top(p).c = q
        /\ Returned(q) => started[R(q)] = 1 /\ Returned(R(q)) /\ retval[q] = retval[R(q)]

\* C5 witness: a SEQUENTIAL node has returned a result other than SHELL_EXIT
\* although its cmd1 returned SHELL_EXIT.
C5_Witness ==
    \E q \in NodesWith({"OP_SEQUENTIAL"}) :
        /\ Returned(q)
        /\ retval[L(q)] = <<SHELL_EXIT>>
        /\ retval[q] = <<0>>

\* C6: for a COND_IF_NONZERO node, cmd2 is started at most once and only
\* after cmd1 returned a nonzero result; when cmd1 returned 0, cmd2 is never
\* started, nothing is forked for it and the node returns 0; when cmd1
\* returned nonzero, the node returns what cmd2 returned.
C6_CondNZero ==
    \A q \in NodesWith({"OP_CONDITIONAL_NZERO"}) :
        /\ started[R(q)] <= 1
        /\ started[R(q)] > 0 => Returned(L(q)) /\ retval[L(q)] # <<0>>
        /\ retval[L(q)] = <<0>> =>
               /\ started[R(q)] = 0
               /\ spawned[R(q)] = {}
               /\ ~Returned(R(q))
               /\ Returned(q) => retval[q] = <<0>>
        /\ Returned(q) /\ retval[L(q)] # <<0>> =>
               started[R(q)] = 1 /\ Returned(R(q)) /\ retval[q] = retval[R(q)]

\* C6 witness: a COND_IF_NONZERO node whose cmd1 returned -1 has returned the
\* SHELL_EXIT its cmd2 returned.
C6_Witness ==
    \E q \in NodesWith({"OP_CONDITIONAL_NZERO"}) :
        /\ retval[L(q)] = <<-1>>
        /\ retval[R(q)] = <<SHELL_EXIT>>
        /\ retval[q] = <<SHELL_EXIT>>

\* C7: for a COND_IF_ZERO node, cmd2 is started at most once and only after
\* cmd1 returned 0; when cmd1 returned 0, the node returns what cmd2
\* returned; when cmd1 returned nonzero, cmd2 is never started and the node
\* returns 0.
C7_CondZero ==
    \A q \in NodesWith({"OP_CONDITIONAL_ZERO"}) :
        /\ started[R(q)] <= 1
        /\ started[R(q)] > 0 => retval[L(q)] = <<0>>
        /\ Returned(q) /\ retval[L(q)] = <<0>> =>
               started[R(q)] = 1 /\ Returned(R(q)) /\ retval[q] = retval[R(q)]
        /\ Returned(L(q)) /\ retval[L(q)] # <<0>> =>
               /\ started[R(q)] = 0
               /\ spawned[R(q)] = {}
               /\ ~Returned(R(q))
               /\ Returned(q) => retval[q] = <<0>>

\* C7 witness: a COND_IF_ZERO node whose cmd1 returned the status 1 of a
\* failed program has returned 0 without starting cmd2.
C7_Witness ==
    \E q \in NodesWith({"OP_CONDITIONAL_ZERO"}) :
        /\ retval[L(q)] = <<1>>
        /\ started[R(q)] = 0
        /\ retval[q] = <<0>>

\* C8: every value parse_simple returns is in 0..255 or is SHELL_EXIT.
C8_SimpleStatusRange ==
    \A q \in Paths :
        OpAt(q) = "OP_NONE" /\ execRet[q] # <<>> =>
            execRet[q][1] \in 0..255 \cup {SHELL_EXIT}

\* The split the claim describes: the text before the first '=' and all of
\* the text after it.
FirstEq(cmd) == CHOOSE i \in 1..Len(cmd) : cmd[i] = "=" /\ \A j \in 1..(i - 1) : cmd[j] # "="
NameBeforeFirstEq(cmd) == SubSeq(cmd, 1, FirstEq(cmd) - 1)
ValueAfterFirstEq(cmd) == SubSeq(cmd, FirstEq(cmd) + 1, Len(cmd))

\* C9: right after parse_simple returned 0 for an assignment verb, the
\* environment of the process maps the text before the first '=' to all of
\* the text after the first '=' (stated for the verbs that have some text
\* before the first '=').
C9_AssignSplitsAtFirstEq ==
    \A p \in Pids :
        /\ At(p, "parse_command", "return")
        /\ OpAt(Top(p).c) = "OP_NONE"
        /\ HasVerb(p)
        /\ Strchr(Cmd(p), "=")
        /\ Head(Cmd(p)) # "="
        /\ execRet[Top(p).c] = <<0>>
        => Getenv(env[p], NameBeforeFirstEq(Cmd(p))) = <<ValueAfterFirstEq(Cmd(p))>>

\* p executes the assignment branch of parse_simple in this step.
AssignStep(p) ==
    /\ At(p, "parse_simple", "dispatch")
    /\ HasVerb(p)
    /\ Strchr(Cmd(p), "=")
    /\ stack'[p] # stack[p]

\* C10: a forked child starts with a copy of the environment its parent has
\* at the fork, so it sees every assignment the parent made before and none
\* it makes later; and the environment of a process changes only by an
\* assignment that process itself executes, so an assignment in a child of a
\* PIPE or PARALLEL node never reaches the parent or a process forked earlier.
C10_EnvCopiedAtFork ==
    [][\A p \in Pids :
         /\ pstate[p] = "free" /\ pstate'[p] = "run" => env'[p] = env[ppid'[p]]
         /\ pstate[p] # "free" /\ env'[p] # env[p] => AssignStep(p)]_vars

\* C10 witness: a child sees b=a, which its parent assigned before forking
\* it, and has assigned a=b itself, which its parent does not see.
C10_Witness ==
    \E c \in Pids :
        /\ ppid[c] # 0
        /\ Getenv(env[c], <<"b">>) = <<<<"a">>>>
        /\ Getenv(env[c], <<"a">>) = <<<<"b">>>>
        /\ Getenv(env[ppid[c]], <<"b">>) = <<<<"a">>>>
        /\ Getenv(env[ppid[c]], <<"a">>) = <<InitEnv[<<"a">>]>>

(***************************************************************************)
(* Descriptors, pipes and processes.                                       *)
(***************************************************************************)
\* p is a, or was forked by a or by a descendant of a.
RECURSIVE IsDescendant(_, _)
IsDescendant(p, a) == p = a \/ (ppid[p] # 0 /\ IsDescendant(ppid[p], a))
Family(a) == {p \in Pids : pstate[p] # "free" /\ IsDescendant(p, a)}

\* The children an executor forked for node q: first the one for cmd1.
Child1(q) == CHOOSE a \in spawned[q] : \A b \in spawned[q] : a <= b
Child2(q) == CHOOSE a \in spawned[q] : \A b \in spawned[q] : b <= a

\* No simple command under t redirects the given stream ("in", "out", "err").
RECURSIVE NoRedirect(_, _)
NoRedirect(t, stream) ==
    IF t = <<>> THEN TRUE
    ELSE IF t[1].op = "OP_NONE" THEN t[1].scmd = <<>> \/ t[1].scmd[1][stream] = <<>>
    ELSE NoRedirect(t[1].cmd1, stream) /\ NoRedirect(t[1].cmd2, stream)

\* No node under t is a pipeline.
RECURSIVE NoPipe(_)
NoPipe(t) ==
    IF t = <<>> \/ t[1].op = "OP_NONE" THEN TRUE
    ELSE t[1].op # "OP_PIPE" /\ NoPipe(t[1].cmd1) /\ NoPipe(t[1].cmd2)

\* C11: for a PIPE node whose pipe exists, the bytes that went through the
\* write end are, in order, the bytes read from the read end followed by the
\* bytes still in flight.  If the left sub-tree has no output redirection
\* (and no pipeline of its own), a program of the left side has the write end
\* as descriptor 1 and what it has written is exactly what went through the
\* write end; if the right sub-tree has no input redirection, a program of
\* the right side has the read end as descriptor 0 and what it has read is
\* exactly what was read from the read end; and while nothing but the left
\* side has written, the standard output of the process that made the pipe
\* has received nothing.
C11_PipeCarriesBytes ==
    \A q \in NodesWith({"OP_PIPE"}) :
        (pipeOf[q] # 0 /\ spawned[q] # {}) =>
            LET w == pipeOf[q]
                r == w - 1
                A == Child1(q)
                B == Child2(q)
                P == ppid[A]
            IN  /\ ofds[w].written = ofds[r].readlog \o ofds[w].buf
                /\ (NoRedirect(NodeAt(L(q)), "out") /\ NoPipe(NodeAt(L(q)))) =>
                      \A p \in Family(A) :
                          /\ Running(p) => fds[p][STDOUT_FILENO] = w
                          /\ prog[p].wrote # <<>> => ofds[w].written = prog[p].wrote
                /\ (B # A /\ NoRedirect(NodeAt(R(q)), "in") /\ NoPipe(NodeAt(R(q)))) =>
                      \A p \in Family(B) :
                          /\ Running(p) => fds[p][STDIN_FILENO] = r
                          /\ prog[p].got # <<>> => ofds[r].readlog = prog[p].got
                /\ (/\ pstate[P] = "run"
                    /\ \A p \in Pids \ Family(A) : prog[p].wrote = <<>>)
                      => ofds[fds[P][STDOUT_FILENO]].written = <<>>

\* C11 witness: the program on the left of a pipeline without redirections
\* has written its two bytes and the program on the right has read them.
C11_Witness ==
    \E q \in NodesWith({"OP_PIPE"}) :
        /\ pipeOf[q] # 0 /\ Cardinality(spawned[q]) = 2
        /\ NoRedirect(NodeAt(L(q)), "out") /\ NoRedirect(NodeAt(R(q)), "in")
        /\ \E p \in Family(Child1(q)) : prog[p].wrote = <<"x", "y">>
        /\ \E p \in Family(Child2(q)) : prog[p].got = <<"x", "y">>

\* p is in parse_simple on a cd command.
InCd(p) ==
    /\ pstate[p] = "run" /\ image[p] = "shell" /\ stack[p] # <<>>
    /\ Top(p).fn = "parse_simple"
    /\ HasVerb(p) /\ Cmd(p) = STR_CD

\* C12: no step of a cd built-in that leaves its process alive (the dups at
\* entry; solve_redirection, shell_cd and restore_redirection up to the
\* return, whether chdir succeeded or failed) changes the open file
\* description that descriptor 0, 1 or 2 of the process refers to, whatever
\* the combination of input, output and error redirections.
C12_CdRestoresStd ==
    [][\A p \in Pids :
         (InCd(p) /\ pstate'[p] = "run")
            => \A fd \in {STDIN_FILENO, STDOUT_FILENO, STDERR_FILENO} :
                  fds'[p][fd] = fds[p][fd]]_vars

\* C12 witness: a cd with input, output and error redirections has returned
\* (its files were opened) and the program of the next command of the same
\* process runs with the descriptors 0, 1, 2 the shell started with.
C12_Witness ==
    /\ NodeAt(<<1>>) # <<>> /\ NodeAt(<<1>>)[1].scmd # <<>>
    /\ NodeAt(<<1>>)[1].scmd[1].verb = <<STR_CD>>
    /\ NodeAt(<<1>>)[1].scmd[1].in # <<>>
    /\ NodeAt(<<1>>)[1].scmd[1].out # <<>>
    /\ NodeAt(<<1>>)[1].scmd[1].err # <<>>
    /\ execRet[<<1>>] # <<>>
    /\ files[FILE_F].opens = 2 /\ files[FILE_G].opens = 1
    /\ \E p \in Pids :
          /\ Running(p) /\ ppid[p] = Shell
          /\ \A fd \in {STDIN_FILENO, STDOUT_FILENO, STDERR_FILENO} :
                fds[p][fd] = fd + 1 /\ fds[Shell][fd] = fd + 1

\* C13: in the step in which a cd built-in returns, chdir() is called if and
\* only if the command has exactly one parameter; with no parameter cd
\* returns 0 (success) and with two or more it returns 1 (failure), and in
\* both cases the working directory of the process is unchanged.  chdir() is
\* called in no other step.
C13_CdArgumentCount ==
    [][/\ \A p \in Pids :
            (InCd(p) /\ Top(p).pc = "dispatch" /\ pstate'[p] = "run" /\ stack'[p] # stack[p])
               => LET n == Len(Scmd(p)[1].params) IN
                  /\ (n = 1) <=> (chdirs'[Top(p).c] = chdirs[Top(p).c] + 1)
                  /\ (n # 1) => chdirs' = chdirs /\ cwd'[p] = cwd[p]
                  /\ (n = 0) => ret'[p] = 0
                  /\ (n > 1) => ret'[p] = 1
       /\ chdirs' # chdirs =>
             \E p \in Pids : InCd(p) /\ Top(p).pc = "dispatch" /\ Len(Scmd(p)[1].params) = 1]_vars

\* C13 witness: cd with two parameters returned 1, then cd with none
\* returned 0; chdir() was never called and the directory is the initial one.
C13_Witness ==
    /\ NodeAt(<<1>>) # <<>> /\ NodeAt(<<1>>)[1].scmd # <<>>
    /\ NodeAt(<<1>>)[1].scmd[1].verb = <<STR_CD>>
    /\ Len(NodeAt(<<1>>)[1].scmd[1].params) = 2
    /\ NodeAt(<<2>>)[1].scmd[1].verb = <<STR_CD>>
    /\ NodeAt(<<2>>)[1].scmd[1].params = <<>>
    /\ execRet[<<1>>] = <<1>> /\ execRet[<<2>>] = <<0>>
    /\ \A q \in Paths : chdirs[q] = 0
    /\ cwd[Shell] = InitCwd

\* p is about to run solve_redirection: in the cd branch or in the child
\* forked for an external command.
AtRedirection(p) ==
    \/ InCd(p) /\ Top(p).pc = "dispatch"
    \/ At(p, "parse_simple", "child")

\* Which open() of solve_redirection fails for p: every open() when the
\* descriptor table is full, the input when the file does not exist, the
\* output and the error when the path is a directory.
TableFull(p) == \A fd \in FdNums : fds[p][fd] # 0
InBad(p) ==
    Scmd(p)[1].in # <<>> /\ (TableFull(p) \/ ~files[Scmd(p)[1].in[1]].exists)
OutBad(p) ==
    Scmd(p)[1].out # <<>> /\ (TableFull(p) \/ Scmd(p)[1].out[1] \in ExistingDirs)
ErrBad(p) ==
    Scmd(p)[1].err # <<>> /\ (TableFull(p) \/ Scmd(p)[1].err[1] \in ExistingDirs)
\* The number of targets opened before the first failure.
OpenedBeforeFailure(p) ==
    IF InBad(p) THEN 0
    ELSE (IF Scmd(p)[1].in # <<>> THEN 1 ELSE 0)
         + (IF OutBad(p) \/ Scmd(p)[1].out = <<>> THEN 0 ELSE 1)

RECURSIVE SumOpens(_, _)
SumOpens(f, S) ==
    IF S = {} THEN 0
    ELSE LET x == CHOOSE x \in S : TRUE IN f[x].opens + SumOpens(f, S \ {x})

\* C14: when an open() of solve_redirection fails for a command, the step of
\* the process performing the redirection terminates that process with a
\* nonzero exit status and no other process; only the targets before the
\* failing one were opened, the process image was not replaced and no
\* directory was changed.  And when parse_simple collects a child that ended
\* without executing a program, the parent returns a nonzero status and keeps
\* running.
C14_OpenFailureTerminates ==
    [][\A p \in Pids :
         /\ (AtRedirection(p) /\ (InBad(p) \/ OutBad(p) \/ ErrBad(p)) /\ stack'[p] # stack[p])
               => /\ pstate'[p] = "zombie"
                  /\ WEXITSTATUS(wstatus'[p]) # 0
                  /\ \A q \in Pids \ {p} : pstate'[q] = pstate[q]
                  /\ image' = image /\ cwd' = cwd /\ chdirs' = chdirs
                  /\ SumOpens(files', FilePaths)
                       = SumOpens(files, FilePaths) + OpenedBeforeFailure(p)
         /\ (/\ At(p, "parse_simple", "wait")
             /\ stack'[p] # stack[p]
             /\ image[Top(p).pid_cmd1] = "shell")
               => ret'[p] # 0 /\ pstate'[p] = "run"]_vars

\* C14 witness: an external command with a missing input file and output and
\* error redirected to FILE_F: the child has terminated, FILE_F was never
\* opened or truncated, and the parent has returned 1 and is running.
C14_Witness ==
    /\ NodeAt(<<>>) # <<>> /\ NodeAt(<<>>)[1].scmd # <<>>
    /\ NodeAt(<<>>)[1].scmd[1].verb = <<<<"a">>>>
    /\ NodeAt(<<>>)[1].scmd[1].in = <<FILE_G>>
    /\ NodeAt(<<>>)[1].scmd[1].out = <<FILE_F>>
    /\ execRet[<<>>] = <<1>>
    /\ pstate[Shell] = "run"
    /\ \E c \in spawned[<<>>] : pstate[c] = "reaped" /\ image[c] = "shell"
    /\ files[FILE_F].opens = 0 /\ files[FILE_F].truncs = 0

\* C15: when a command's output and error paths are string-equal,
\* solve_redirection opens that path once for the output only (besides an
\* input redirection naming the same path) and truncates it at most once,
\* and leaves descriptors 1 and 2 on one open file description.
C15_SamePathOpenedOnce ==
    \A p \in Pids :
        (/\ AtRedirection(p)
         /\ Scmd(p)[1].out # <<>> /\ Scmd(p)[1].err # <<>>
         /\ Scmd(p)[1].out[1] = Scmd(p)[1].err[1]
         /\ Solved(p).ok)
           => LET path == Scmd(p)[1].out[1]
                  st == Solved(p)
              IN  /\ st.fds[STDOUT_FILENO] = st.fds[STDERR_FILENO]
                  /\ st.files[path].opens
                       = files[path].opens + 1 + (IF Scmd(p)[1].in = <<path>> THEN 1 ELSE 0)
                  /\ st.files[path].truncs <= files[path].truncs + 1

\* C16: when parse_simple returns for an external command, it has forked
\* exactly one child for that command, the child had terminated before the
\* parent went on and is collected, and the parent returns the child's exit
\* code if the child exited; a child that ended without executing a program
\* (execvp failed) gives a nonzero return value; the parent is still running.
C16_ExternalCommand ==
    [][\A p \in Pids :
         (At(p, "parse_simple", "wait") /\ stack'[p] # stack[p])
            => LET c == Top(p).pid_cmd1
                   q == Top(p).c
               IN  /\ spawned[q] = {c} /\ spawned'[q] = {c}
                   /\ pstate[c] = "zombie" /\ pstate'[c] = "reaped"
                   /\ wstatus[c] % 256 = 0 => ret'[p] = wstatus[c] \div 256
                   /\ image[c] = "shell" => ret'[p] # 0
                   /\ execRet'[q] = <<ret'[p]>>
                   /\ pstate'[p] = "run"]_vars

\* C16 witness: a command that is not installed, without redirections: the
\* child printed the diagnostic on the standard error and exited, the parent
\* returned 1 and is running.
C16_Witness ==
    /\ NodeAt(<<>>) # <<>> /\ NodeAt(<<>>)[1].scmd # <<>>
    /\ NodeAt(<<>>)[1].scmd[1].verb = <<<<"b">>>>
    /\ NodeAt(<<>>)[1].scmd[1].err = <<>>
    /\ ofds[3].written = <<"!">>
    /\ execRet[<<>>] = <<1>>
    /\ pstate[Shell] = "run"
    /\ Cardinality(spawned[<<>>]) = 1
    /\ \A c \in spawned[<<>>] : pstate[c] = "reaped"

\* C17: whenever parse_simple returns in the process that called it (from
\* the cd, exit/quit, assignment or external-command path), the copies of
\* descriptors 0, 1, 2 it duplicated at entry are closed.
C17_SavedCopiesClosed ==
    [][\A p \in Pids :
         (/\ pstate[p] = "run" /\ image[p] = "shell" /\ stack[p] # <<>>
          /\ Top(p).fn = "parse_simple" /\ Top(p).pc \in {"dispatch", "wait"}
          /\ pstate'[p] = "run" /\ Len(stack'[p]) < Len(stack[p]))
            => \A i \in 1..3 :
                  Top(p).saved[i] \in FdNums => fds'[p][Top(p).saved[i]] = 0]_vars

\* q is a leaf with an external command.
ExternalLeaf(q) ==
    /\ NodeAt(q) # <<>> /\ NodeAt(q)[1].op = "OP_NONE"
    /\ NodeAt(q)[1].scmd # <<>> /\ NodeAt(q)[1].scmd[1].verb # <<>>
    /\ IsExternal(NodeAt(q)[1].scmd[1].verb[1])

\* C19: when parse_simple has returned 0 for an external command, or
\* run_on_pipe or run_in_parallel has reported success, every child forked
\* for that node terminated by calling exit with code 0 (its wait status is
\* 0); a child killed by a signal is never counted as a success.
C19_SuccessMeansExitZero ==
    \A q \in Paths :
        (\/ ExternalLeaf(q) /\ execRet[q] = <<0>>
         \/ OpAt(q) \in {"OP_PIPE", "OP_PARALLEL"} /\ execRet[q] = <<BoolToInt(TRUE)>>)
           => \A c \in spawned[q] : wstatus[c] = 0

\* The processes that exist.
Live == {p \in Pids : pstate[p] # "free"}

\* p stands where a fork() is: in parse_simple on an external command, or in
\* run_in_parallel or run_on_pipe.
AtFork(p) ==
    \/ At(p, "parse_simple", "dispatch") /\ IsExternal(Cmd(p))
    \/ At(p, "run_in_parallel", "fork1") \/ At(p, "run_in_parallel", "fork2")
    \/ At(p, "run_on_pipe", "fork1") \/ At(p, "run_on_pipe", "fork2")

\* The simple command of the leaf q, when q is a leaf with a verb.
LeafCmd(q) == NodeAt(q)[1].scmd[1]
HasLeafCmd(q) ==
    /\ NodeAt(q) # <<>> /\ NodeAt(q)[1].op = "OP_NONE"
    /\ NodeAt(q)[1].scmd # <<>> /\ LeafCmd(q).verb # <<>>

\* What a built-in in the leaf q that returned 0 has left in process p.
EffectVisible(q, p) ==
    LET cmd == LeafCmd(q).verb[1] IN
    /\ (/\ cmd = STR_CD
        /\ Len(LeafCmd(q).params) = 1
        /\ execRet[q] = <<0>>) => cwd[p] = LeafCmd(q).params[1]
    /\ (/\ cmd \notin {STR_CD, STR_EXIT, STR_QUIT}
        /\ Strchr(cmd, "=")
        /\ NameBeforeFirstEq(cmd) # <<>>
        /\ ValueAfterFirstEq(cmd) # <<>>
        /\ ~Strchr(ValueAfterFirstEq(cmd), "=")
        /\ execRet[q] = <<0>>)
          => Getenv(env[p], NameBeforeFirstEq(cmd)) = <<ValueAfterFirstEq(cmd)>>

\* C20: a step creates at most one process, and only where the process
\* taking it stands at the fork() of an external command or of a PIPE or
\* PARALLEL executor; an external-command leaf has forked at most one
\* process, a PIPE or PARALLEL node at most two, and every other node
\* (SEQUENTIAL, the conditionals, cd, exit/quit, assignments) none.  And
\* when the right operand of a SEQUENTIAL or conditional node starts in
\* process p, the directory a cd of the left operand changed to and the
\* variable an assignment of the left operand set are what p has.
C20_OnlyForkingNodesFork ==
    [][/\ Cardinality(Live' \ Live) <= 1
       /\ \A c \in Live' \ Live : AtFork(ppid'[c])
       /\ \A q \in Paths :
             Cardinality(spawned'[q]) <=
                 IF OpAt(q) \in {"OP_PIPE", "OP_PARALLEL"} THEN 2
                 ELSE IF ExternalLeaf(q) THEN 1 ELSE 0
       /\ \A q \in NodesWith({"OP_SEQUENTIAL", "OP_CONDITIONAL_NZERO", "OP_CONDITIONAL_ZERO"}) :
             \A p \in Pids :
                 (/\ At(p, "parse_command", "start") /\ Top(p).c = R(q)
                  /\ HasLeafCmd(L(q)))
                    => EffectVisible(L(q), p)]_vars

\* C20 witness: after a cd to an existing directory in the left operand, the
\* program of the right operand runs in the one process that was forked, in
\* that directory.
C20_Witness ==
    /\ OpAt(<<>>) \in {"OP_SEQUENTIAL", "OP_CONDITIONAL_ZERO"}
    /\ HasLeafCmd(<<1>>)
    /\ LeafCmd(<<1>>).verb = <<STR_CD>>
    /\ execRet[<<1>>] = <<0>>
    /\ Cardinality(Live) = 2
    /\ \E c \in Live : Running(c) /\ ppid[c] = Shell /\ cwd[c] = <<"a">> /\ cwd[Shell] = <<"a">>

\* The PIPE node q has its pipe and its first child, and that child and all
\* its descendants have terminated.
PipeLeftDone(q) ==
    /\ OpAt(q) = "OP_PIPE" /\ pipeOf[q] # 0 /\ spawned[q] # {}
    /\ \A p \in Family(Child1(q)) : pstate[p] \in {"zombie", "reaped"}

\* h still has to execute the close() calls that follow the forks of q's
\* pipeline: the parent before its two close() calls, the second child
\* before its own.
BeforeItsClose(h, q) ==
    /\ pstate[h] = "run" /\ image[h] = "shell" /\ stack[h] # <<>>
    /\ Top(h).fn = "run_on_pipe" /\ Top(h).c = q
    /\ Top(h).pc \in {"fork2", "close", "child2"}

\* Nobody holds the write end of q's pipe, and no program is left reading
\* from its read end.
PipeReleased(q) ==
    /\ Holders(pipeOf[q]) = {}
    /\ \A p \in Pids :
          ~(Running(p) /\ prog[p].reads /\ fds[p][STDIN_FILENO] = pipeOf[q] - 1)

\* The parent of q's pipeline waits for a child.
PipeParentWaits(q) ==
    \E p \in Pids :
        /\ pstate[p] = "run" /\ image[p] = "shell" /\ stack[p] # <<>>
        /\ Top(p).fn = "run_on_pipe" /\ Top(p).c = q
        /\ Top(p).pc \in {"wait1", "wait2"}

\* Every pipeline is settled: where the left side of a PIPE node has
\* terminated the pipe is released, and no parent of a pipeline is waiting.
PipesSettled ==
    \A q \in Paths :
        /\ PipeLeftDone(q) => PipeReleased(q)
        /\ ~PipeParentWaits(q)

=============================================================================
